---- MODULE Spec2Model ----
(***************************************************************************)
(* Tiered template loader of src/index.js: TTL cache, single in-flight      *)
(* flag, remote -> mirror -> bundled fallback chain, mirror write-through,  *)
(* and the accessors built on it (getById, refresh, status, reconfigure).   *)
(*                                                                          *)
(* Scheduling follows the JavaScript event loop.  A call from outside and   *)
(* the completion of an I/O operation are macrotasks; the continuation of   *)
(* `await loadWithCache(...)` in loadSteps/loadWorkflows (the assignment    *)
(* to the cache variable) and the continuation of refreshCache after        *)
(* Promise.all are microtasks, kept in the FIFO queue mq, which is drained  *)
(* before the next macrotask runs.                                          *)
(***************************************************************************)
EXTENDS Integers, Sequences, FiniteSets, TLC

\* ---------------------------------------------------------------- bounds
\* Number of slots for calls of load / getById from outside that have not
\* returned yet.
NumCallers == 2
\* Number of clock advances of one behaviour.
MaxTicks == 2
\* REPOSITORY_CACHE_TTL of the environment, in seconds.
EnvCacheTTL == 1

\* ------------------------------------------------------------- constants
MsPerSecond == 1000

Types == {"steps", "workflows"}
Null == "null"

\* The wall clock starts far from 0, as Date.now() does: the initial
\* lastFetchTime of 0 is older than every TTL.
Epoch == 10 * MsPerSecond
TickMs == MsPerSecond

\* ------------------------------------------------------------------ state
VARIABLES
    config,         \* the configuration object
    cache,          \* stepsCache / workflowsCache, by collection type
    lastFetchTime,  \* 0, or Date.now() at the end of the last fetch chain
    isFetching,     \* the in-flight flag
    mirror,         \* the .cache directory, by collection type
    bundled,        \* whether the bundled directory of each collection type
                    \* can be read (the directories are never written)
    now,            \* Date.now()
    inv,            \* the invocations of loadSteps / loadWorkflows, by slot
    mq,             \* microtask queue: slots awaiting their assignment, 0 for
                    \* the continuation of refreshCache
    refreshing,     \* "no", or a refreshCache call is awaiting Promise.all:
                    \* "alone" if no fetch was in flight when it was called,
                    \* "contended" otherwise
    entry,          \* history: how each cache entry came to be
    listed          \* history: time of the latest load call per type that
                    \* issued a remote listing since the last refresh or
                    \* reconfigure, 0 if none within the TTL

vars == << config, cache, lastFetchTime, isFetching, mirror, bundled, now, inv, mq,
           refreshing, entry, listed >>

\* ------------------------------------------------------------ file names
File(base, ext) == [base |-> base, ext |-> ext]
Json(base) == File(base, "json")

\* String.prototype.endsWith('.json')
EndsWithJson(name) == name.ext = "json"

\* Directory order used by readdir and by the remote listing.
AllFiles ==
    << Json("a"), Json("b"), Json("w"), Json("x"), File("README", "md"), File("sub", "") >>

\* ----------------------------------------------------------------- items
Item(id, src) == [id |-> id, src |-> src]

Seq2Set(s) == {s[i] : i \in 1..Len(s)}

\* JSON.stringify(item, null, 2): the document as a token sequence.
Stringify(item) == << "{", "id", item.id, "src", item.src, "}" >>

\* A truncated document, as a failed or interrupted write leaves it.
Garbage == << "{", "id" >>

\* JSON.parse succeeds on a complete document only.
Parses(content) ==
    /\ Len(content) = 6
    /\ content[1] = "{"
    /\ content[2] = "id"
    /\ content[4] = "src"
    /\ content[6] = "}"

JsonParse(content) == Item(content[3], content[5])

\* ---------------------------------------------------- the remote repository
\* Directory listing of <repoPath>/<type> in each repository.
Entry(name, type) == [name |-> name, type |-> type]

RemoteDir(repo, type) ==
    IF repo = "r1" /\ type = "steps"
    THEN << Entry(Json("a"), "file"), Entry(Json("b"), "file"), Entry(File("README", "md"), "file") >>
    ELSE IF repo = "r1" /\ type = "workflows"
    THEN << Entry(Json("w"), "file") >>
    ELSE IF repo = "r2" /\ type = "steps"
    THEN << Entry(Json("a"), "file") >>
    ELSE << Entry(File("sub", ""), "dir") >>

RemoteHasFile(repo, type, name) ==
    \E i \in 1..Len(RemoteDir(repo, type)) :
        /\ RemoteDir(repo, type)[i].name = name
        /\ RemoteDir(repo, type)[i].type = "file"

\* The decoded and parsed content of <repoPath>/<type>/<name>: r2 is a
\* repository holding fewer files, with the content they have in r1.
RemoteItem(repo, type, name) == Item(name.base, "remote")

\* ------------------------------------------------------ bundled defaults
\* <install-root>/<type> as shipped: steps holds one template and one
\* unparsable file, workflows one template and a copy of it under another
\* file name (same id).
BundledFiles(type) ==
    IF type = "steps"
    THEN { [name |-> Json("b"), content |-> Stringify(Item("b", "bundled"))],
           [name |-> Json("x"), content |-> Garbage] }
    ELSE { [name |-> Json("w"), content |-> Stringify(Item("w", "bundled"))],
           [name |-> Json("x"), content |-> Stringify(Item("w", "copy"))] }

\* readdir(<install-root>/<type>) succeeds.
BundledReadable(type) == bundled[type]

\* ---------------------------------------------------- directory contents
\* A directory is a set of [name, content] with distinct names.
Names(files) == {f.name : f \in files}

ContentOf(files, name) == (CHOOSE f \in files : f.name = name).content

\* readdir: the names in directory order.
Readdir(files) == SelectSeq(AllFiles, LAMBDA n : n \in Names(files))

\* writeFile: create or overwrite.
WriteFile(files, name, content) ==
    {f \in files : f.name # name} \cup {[name |-> name, content |-> content]}

\* ------------------------------------------------------------ mirror store
\* <cacheDir>/<type>: whether the directory exists, and its files.
Dir(exists, files) == [exists |-> exists, files |-> files]
NoDir == Dir(FALSE, {})

\* The result of a read that may yield null.
Absent == [present |-> FALSE, items |-> << >>]
Present(items) == [present |-> TRUE, items |-> items]

\* The parsed contents of the named files, in order.
ParseAll(files, names) == [i \in 1..Len(names) |-> JsonParse(ContentOf(files, names[i]))]

\* loadFromCacheDir: null when the directory is missing, when any .json file
\* fails to parse (one try/catch around the whole loop), or when no item is
\* read; the items otherwise.
LoadFromCacheDir(dir) ==
    IF ~dir.exists
    THEN Absent
    ELSE LET jsons == SelectSeq(Readdir(dir.files), EndsWithJson)
         IN  IF \E i \in 1..Len(jsons) : ~Parses(ContentOf(dir.files, jsons[i]))
             THEN Absent
             ELSE IF Len(jsons) > 0
                  THEN Present(ParseAll(dir.files, jsons))
                  ELSE Absent

\* The first k writes of saveToCacheDir's loop.
RECURSIVE WriteItems(_, _, _)
WriteItems(files, items, k) ==
    IF k = 0
    THEN files
    ELSE WriteFile(WriteItems(files, items, k - 1),
                   Json(items[k].id), Stringify(items[k]))

\* saveToCacheDir: mkdir, then one writeFile per item; the first failure
\* (mkdir, or the write of item k+1) ends the batch, caught and logged.
SaveToCacheDir(dir, items, mkdirOk, k) ==
    IF mkdirOk THEN Dir(TRUE, WriteItems(dir.files, items, k)) ELSE dir

\* loadFromLocal returning nothing.
LoadFromLocalEmpty(type) == << >>

\* loadFromLocal: every .json file of the bundled directory that parses;
\* empty when the directory cannot be read.
LoadFromLocal(type) ==
    IF ~BundledReadable(type)
    THEN << >>
    ELSE LET files == BundledFiles(type)
             good == SelectSeq(Readdir(files),
                         LAMBDA n : EndsWithJson(n) /\ Parses(ContentOf(files, n)))
         IN  ParseAll(files, good)

\* The .json files of a remote listing (the filter of the fetch loop).
JsonEntries(directory) ==
    LET keep == SelectSeq(directory, LAMBDA e : e.type = "file" /\ EndsWithJson(e.name))
    IN  [i \in 1..Len(keep) |-> keep[i].name]

\* ------------------------------------------------------------ invocations
\* Slots of external callers, and the two loads of refreshCache.
Callers == 1..NumCallers
RefreshSlot(type) == IF type = "steps" THEN NumCallers + 1 ELSE NumCallers + 2
RefreshSlots == {RefreshSlot(t) : t \in Types}
Slots == Callers \cup RefreshSlots

\* A cache variable: null, or an array.
CacheNull == [set |-> FALSE, items |-> << >>]
CacheOf(items) == [set |-> TRUE, items |-> items]

\* stepsCache?.length || 0
Count(c) == IF c.set THEN Len(c.items) ELSE 0

IdleSlot ==
    [ pc      |-> "idle",   \* idle, list, file, save, fallback, local, assign
      type    |-> "steps",
      arg     |-> CacheNull,\* the cache argument of a call that did not fetch
      reqRepo |-> "",       \* config.repo read when the pending request was built
      listRepo |-> "",      \* config.repo read when the listing request was built,
                            \* kept while the files of that listing are fetched
      dir     |-> << >>,    \* listing entries still to fetch
      items   |-> << >>,    \* items fetched so far
      ret     |-> << >>,    \* the value loadWithCache resolved with
      how     |-> "",       \* hit, suppressed or chain
      via     |-> "",       \* the chain's source: remote, mirror or bundled
                            \* (after a failed listing), local (local mode)
      saved   |-> "",       \* ok or failed: the outcome of saveToCacheDir
      pre     |-> FALSE ]   \* the configuration changed while the chain ran

\* byChain: the entry is the result of a fetch chain run for its type; at:
\* when that chain ended, 0 once that is longer ago than the TTL; pre: the
\* configuration changed while that chain ran.
EntryNone == [byChain |-> FALSE, at |-> 0, pre |-> FALSE]

InChain(s) == inv[s].pc \in {"list", "file", "save", "fallback", "local"}

\* The installations a process starts in: the shipped directories and no
\* mirror; or an installation whose workflows directory is missing, with the
\* mirror an earlier process left, a truncated file in each directory.
Installations ==
    { [ bundled |-> [t \in Types |-> TRUE],
        mirror  |-> [t \in Types |-> NoDir] ],
      [ bundled |-> [t \in Types |-> t = "steps"],
        mirror  |-> [t \in Types |->
                        Dir(TRUE, { [name |-> Json("x"), content |-> Garbage] })] ] }

Init ==
    /\ \E src \in {"local", "github"} :
          config = [ repo     |-> "r1",
                     branch   |-> "main",
                     token    |-> Null,
                     repoPath |-> "src/repository",
                     cacheTTL |-> EnvCacheTTL * MsPerSecond,
                     source   |-> src ]
    /\ cache = [t \in Types |-> CacheNull]
    /\ lastFetchTime = 0
    /\ isFetching = FALSE
    /\ \E i \in Installations : mirror = i.mirror /\ bundled = i.bundled
    /\ now = Epoch
    /\ inv = [s \in Slots |-> IdleSlot]
    /\ mq = << >>
    /\ refreshing = "no"
    /\ entry = [t \in Types |-> EntryNone]
    /\ listed = [t \in Types |-> 0]

\* ---------------------------------------------------------- loadWithCache
\* isCacheStale, reading Date.now() and config.cacheTTL.
\* isCacheStale with >= for >.
IsCacheStaleAtExpiry(last) == now - last >= config.cacheTTL

IsCacheStale(last) == now - last > config.cacheTTL

\* loadWithCache that ignores the in-flight flag.
LoadWithCacheUnguarded(arg, last, fetching) ==
    IF arg.set /\ ~IsCacheStale(last)
    THEN [pc |-> "assign", ret |-> arg.items, how |-> "hit", fetching |-> fetching]
    ELSE [pc |-> IF config.source = "github" THEN "list" ELSE "local",
          ret |-> << >>, how |-> "chain", fetching |-> TRUE]

\* loadWithCache that goes remote whatever the source mode.
LoadWithCacheAlwaysRemote(arg, last, fetching) ==
    IF arg.set /\ ~IsCacheStale(last)
    THEN [pc |-> "assign", ret |-> arg.items, how |-> "hit", fetching |-> fetching]
    ELSE IF fetching
    THEN [pc |-> "assign", ret |-> IF arg.set THEN arg.items ELSE << >>,
          how |-> "suppressed", fetching |-> fetching]
    ELSE [pc |-> "list", ret |-> << >>, how |-> "chain", fetching |-> TRUE]

\* loadWithCache whose suppressed call, finding no cache, awaits the bundled
\* files instead of returning [] at once (`return cache || await
\* loadFromLocal(type)`).
LoadWithCacheSuppressedReads(arg, last, fetching) ==
    IF arg.set /\ ~IsCacheStale(last)
    THEN [pc |-> "assign", ret |-> arg.items, how |-> "hit", fetching |-> fetching]
    ELSE IF fetching
    THEN [pc |-> IF arg.set THEN "assign" ELSE "local",
          ret |-> IF arg.set THEN arg.items ELSE << >>,
          how |-> "suppressed", fetching |-> fetching]
    ELSE [pc |-> IF config.source = "github" THEN "list" ELSE "local",
          ret |-> << >>, how |-> "chain", fetching |-> TRUE]

\* The synchronous part of loadWithCache(type, cache), up to its first await:
\* a fresh cache is returned, a call during a fetch returns cache || [], and
\* otherwise the flag is set and the fetch chain of the source mode starts.
LoadWithCache(arg, last, fetching) ==
    IF arg.set /\ ~IsCacheStale(last)
    THEN [pc |-> "assign", ret |-> arg.items, how |-> "hit", fetching |-> fetching]
    ELSE IF fetching
    THEN [pc |-> "assign", ret |-> IF arg.set THEN arg.items ELSE << >>,
          how |-> "suppressed", fetching |-> fetching]
    ELSE [pc |-> IF config.source = "github" THEN "list" ELSE "local",
          ret |-> << >>, how |-> "chain", fetching |-> TRUE]

\* The invocation record after the synchronous part.
Called(type, arg, r) ==
    [IdleSlot EXCEPT !.pc = r.pc, !.type = type,
                     !.arg = IF r.pc = "assign" THEN arg ELSE CacheNull,
                     !.ret = r.ret, !.how = r.how,
                     !.reqRepo = IF r.pc = "list" THEN config.repo ELSE ""]

\* loadSteps / loadWorkflows called from outside: `await loadWithCache(type,
\* <cache variable>)` up to the first suspension.  A call takes the first
\* free slot (slots carry no identity of their own).
Call(s, type) ==
    /\ mq = << >>
    /\ inv[s].pc = "idle"
    /\ \A o \in Callers : o < s => inv[o].pc # "idle"
    /\ LET r == LoadWithCache(cache[type], lastFetchTime, isFetching)
       IN  /\ inv' = [inv EXCEPT ![s] = Called(type, cache[type], r)]
           /\ isFetching' = r.fetching
           /\ mq' = IF r.pc = "assign" THEN << s >> ELSE << >>
           /\ listed' = IF r.pc = "list" THEN [listed EXCEPT ![type] = now] ELSE listed
    /\ UNCHANGED << bundled, config, cache, lastFetchTime, mirror, now, refreshing, entry >>

LoadSteps(s) == Call(s, "steps")

LoadWorkflows(s) == Call(s, "workflows")

\* getStepById / getWorkflowById call loadSteps / loadWorkflows; the id is
\* used by their continuation only, when the load has resolved.
LookupIds == {"w", "zz"}

GetStepById(s, x) == x \in LookupIds /\ Call(s, "steps")

GetWorkflowById(s, x) == x \in LookupIds /\ Call(s, "workflows")

\* The last match instead of the first (findLast for find).
FindLast(items, x) ==
    IF \E i \in 1..Len(items) : items[i].id = x
    THEN [found |-> TRUE,
          item |-> items[CHOOSE i \in 1..Len(items) :
                            /\ items[i].id = x
                            /\ \A j \in (i + 1)..Len(items) : items[j].id # x]]
    ELSE [found |-> FALSE, item |-> Item("", "")]

\* Array.prototype.find(e => e.id === x): the first match, or undefined.
Find(items, x) ==
    IF \E i \in 1..Len(items) : items[i].id = x
    THEN [found |-> TRUE,
          item |-> items[CHOOSE i \in 1..Len(items) :
                            /\ items[i].id = x
                            /\ \A j \in 1..(i - 1) : items[j].id # x]]
    ELSE [found |-> FALSE, item |-> Item("", "")]

\* ------------------------------------------------------------ fetch chain
\* loadWithCache clearing the flag after the try block instead of in a
\* finally block: the returns of loadFromGitHub's catch block leave it set.
FinishWithoutFinally(s, ret, via, saved) ==
    /\ inv' = [inv EXCEPT ![s] = [@ EXCEPT !.pc = "assign", !.ret = ret, !.via = via,
                                           !.saved = saved, !.dir = << >>,
                                           !.items = << >>, !.reqRepo = ""]]
    /\ lastFetchTime' = now
    /\ isFetching' = (via \in {"mirror", "bundled"})
    /\ mq' = Append(mq, s)

\* The end of loadWithCache's try block: stamp the fetch time, return the
\* items, clear the flag; the caller's assignment is queued.
Finish(s, ret, via, saved) ==
    /\ inv' = [inv EXCEPT ![s] = [@ EXCEPT !.pc = "assign", !.ret = ret, !.via = via,
                                           !.saved = saved, !.dir = << >>,
                                           !.items = << >>, !.reqRepo = ""]]
    /\ lastFetchTime' = now
    /\ isFetching' = FALSE
    /\ mq' = Append(mq, s)

\* The response to fetchGitHubDirectory(type) arrives.  A failure (network
\* error, non-2xx status, not a listing) enters the catch block; a listing
\* starts the per-file loop, whose first request reads config again.
ListingDone(s) ==
    /\ mq = << >>
    /\ inv[s].pc = "list"
    /\ \E ok \in BOOLEAN :
          LET names == JsonEntries(RemoteDir(inv[s].reqRepo, inv[s].type))
          IN  inv' = [inv EXCEPT ![s] =
                        IF ~ok
                        THEN [@ EXCEPT !.pc = "fallback", !.reqRepo = ""]
                        ELSE IF Len(names) = 0
                        THEN [@ EXCEPT !.pc = "save", !.reqRepo = ""]
                        ELSE [@ EXCEPT !.pc = "file", !.dir = names,
                                       !.listRepo = inv[s].reqRepo,
                                       !.reqRepo = config.repo]]
    /\ UNCHANGED << bundled, config, cache, lastFetchTime, isFetching, mirror, now, mq,
                    refreshing, entry, listed >>

\* The response to one fetchGitHubFile arrives: the item is pushed, or the
\* failure is logged and the file skipped; then the next request is built, or
\* saveToCacheDir is called.
FileDone(s) ==
    /\ mq = << >>
    /\ inv[s].pc = "file"
    /\ \E ok \in BOOLEAN :
          /\ ok => RemoteHasFile(inv[s].reqRepo, inv[s].type, Head(inv[s].dir))
          /\ LET items == IF ok
                          THEN Append(inv[s].items,
                                      RemoteItem(inv[s].reqRepo, inv[s].type, Head(inv[s].dir)))
                          ELSE inv[s].items
                 rest == Tail(inv[s].dir)
             IN  inv' = [inv EXCEPT ![s] =
                           [@ EXCEPT !.items = items, !.dir = rest,
                                     !.pc = IF rest = << >> THEN "save" ELSE "file",
                                     !.listRepo = IF rest = << >> THEN "" ELSE @,
                                     !.reqRepo = IF rest = << >> THEN "" ELSE config.repo]]
    /\ UNCHANGED << bundled, config, cache, lastFetchTime, isFetching, mirror, now, mq,
                    refreshing, entry, listed >>

\* saveToCacheDir completes (the mirror is touched by the one chain in
\* flight only, so its writes are taken together), and loadFromGitHub returns
\* the items.
SaveDone(s) ==
    /\ mq = << >>
    /\ inv[s].pc = "save"
    /\ \E mkdirOk \in BOOLEAN, k \in 0..Len(inv[s].items) :
          /\ ~mkdirOk => k = 0
          /\ mirror' = [mirror EXCEPT ![inv[s].type] =
                           SaveToCacheDir(@, inv[s].items, mkdirOk, k)]
          /\ Finish(s, inv[s].items, "remote",
                    IF mkdirOk /\ k = Len(inv[s].items) THEN "ok" ELSE "failed")
    /\ UNCHANGED << bundled, config, cache, now, refreshing, entry, listed >>

\* The catch block writing what it serves through to the mirror.
FallbackDoneWritesThrough(s) ==
    /\ mq = << >>
    /\ inv[s].pc = "fallback"
    /\ LET cached == LoadFromCacheDir(mirror[inv[s].type])
           items == IF cached.present THEN cached.items ELSE LoadFromLocal(inv[s].type)
       IN  /\ Finish(s, items, IF cached.present THEN "mirror" ELSE "bundled", "")
           /\ mirror' = [mirror EXCEPT ![inv[s].type] =
                            SaveToCacheDir(@, items, TRUE, Len(items))]
    /\ UNCHANGED << bundled, config, cache, now, refreshing, entry, listed >>

\* The catch block with a loadFromCacheDir that lets a failed read or parse
\* of a mirror file escape: loadFromGitHub and loadWithCache reject (the
\* finally block clears the flag), and so does the caller's load.
FallbackDoneUncaught(s) ==
    /\ mq = << >>
    /\ inv[s].pc = "fallback"
    /\ LET dir == mirror[inv[s].type]
           cached == LoadFromCacheDir(dir)
       IN  IF dir.exists /\ \E f \in dir.files : EndsWithJson(f.name) /\ ~Parses(f.content)
           THEN /\ inv' = [inv EXCEPT ![s] = [IdleSlot EXCEPT !.pc = "rejected"]]
                /\ isFetching' = FALSE
                /\ UNCHANGED << lastFetchTime, mq >>
           ELSE IF cached.present
           THEN Finish(s, cached.items, "mirror", "")
           ELSE Finish(s, LoadFromLocal(inv[s].type), "bundled", "")
    /\ UNCHANGED << bundled, config, cache, mirror, now, refreshing, entry, listed >>

\* The catch block of loadFromGitHub: the mirror if it yields items, the
\* bundled files otherwise.
FallbackDone(s) ==
    /\ mq = << >>
    /\ inv[s].pc = "fallback"
    /\ LET cached == LoadFromCacheDir(mirror[inv[s].type])
       IN  IF cached.present
           THEN Finish(s, cached.items, "mirror", "")
           ELSE Finish(s, LoadFromLocal(inv[s].type), "bundled", "")
    /\ UNCHANGED << bundled, config, cache, mirror, now, refreshing, entry, listed >>

\* Local mode: loadFromLocal completes.
LocalDone(s) ==
    /\ mq = << >>
    /\ inv[s].pc = "local"
    /\ Finish(s, LoadFromLocal(inv[s].type), "local", "")
    /\ UNCHANGED << bundled, config, cache, mirror, now, refreshing, entry, listed >>

\* -------------------------------------------------------------- accessors
\* The continuation of `stepsCache = await loadWithCache('steps', stepsCache)`
\* (and of its workflows twin): the resolved value is assigned to the cache
\* variable and returned.  The last load of a refreshCache call resolves its
\* Promise.all.
Assign(s) ==
    /\ mq # << >>
    /\ Head(mq) = s
    /\ inv[s].pc = "assign"
    /\ cache' = [cache EXCEPT ![inv[s].type] = CacheOf(inv[s].ret)]
    /\ entry' = [entry EXCEPT ![inv[s].type] =
                    IF inv[s].how = "chain"
                    THEN [byChain |-> TRUE, at |-> now, pre |-> inv[s].pre]
                    ELSE IF inv[s].arg.set THEN @ ELSE EntryNone]
    /\ inv' = [inv EXCEPT ![s] = IdleSlot]
    /\ mq' = IF s \in RefreshSlots /\ \A o \in RefreshSlots \ {s} : inv[o].pc = "idle"
             THEN Append(Tail(mq), 0)
             ELSE Tail(mq)
    /\ UNCHANGED << bundled, config, lastFetchTime, isFetching, mirror, now, refreshing, listed >>

\* What getStepById(x) / getWorkflowById(x) returns when its load, in slot
\* s, has resolved.
GetByIdResult(s, x) == Find(inv[s].ret, x)

\* The slots whose assignment is queued, in slot order.
Queued(slots, i) == SelectSeq(slots, LAMBDA s : i[s].pc = "assign")

\* refreshCache up to its await: clear both caches and the fetch time, then
\* call loadSteps() and loadWorkflows() one after the other.
RefreshCache ==
    /\ mq = << >>
    /\ refreshing = "no"
    /\ \A s \in RefreshSlots : inv[s].pc = "idle"
    /\ LET r1 == LoadWithCache(CacheNull, 0, isFetching)
           r2 == LoadWithCache(CacheNull, 0, r1.fetching)
           rs == RefreshSlot("steps")
           rw == RefreshSlot("workflows")
       IN  /\ inv' = [inv EXCEPT ![rs] = Called("steps", CacheNull, r1),
                                 ![rw] = Called("workflows", CacheNull, r2)]
           /\ isFetching' = r2.fetching
           /\ mq' = Queued(<< rs, rw >>, inv')
           /\ listed' = [t \in Types |->
                           IF inv'[RefreshSlot(t)].pc = "list" THEN now ELSE 0]
    /\ cache' = [t \in Types |-> CacheNull]
    /\ lastFetchTime' = 0
    /\ entry' = [t \in Types |-> EntryNone]
    /\ refreshing' = IF isFetching THEN "contended" ELSE "alone"
    /\ UNCHANGED << bundled, config, mirror, now >>

\* The summary refreshCache returns.
RefreshSummary ==
    [ steps     |-> Count(cache["steps"]),
      workflows |-> Count(cache["workflows"]),
      source    |-> config.source ]

\* refreshCache after Promise.all: build the summary and return.
RefreshReturn ==
    /\ mq # << >>
    /\ Head(mq) = 0
    /\ refreshing # "no"
    /\ refreshing' = "no"
    /\ mq' = Tail(mq)
    /\ UNCHANGED << bundled, config, cache, lastFetchTime, isFetching, mirror, now, inv,
                    entry, listed >>

\* The object getCacheStatus returns.
CacheStatus ==
    [ source         |-> config.source,
      repo           |-> IF config.source = "github" THEN config.repo ELSE "local",
      branch         |-> IF config.source = "github" THEN config.branch ELSE Null,
      cacheTTL       |-> config.cacheTTL \div MsPerSecond,
      lastFetch      |-> lastFetchTime,
      isStale        |-> IsCacheStale(lastFetchTime),
      stepsCount     |-> Count(cache["steps"]),
      workflowsCount |-> Count(cache["workflows"]) ]

\* getCacheStatus: reads only.
GetCacheStatus ==
    /\ mq = << >>
    /\ CacheStatus.stepsCount >= 0
    /\ UNCHANGED vars

\* The partial configurations passed to updateConfig: a record holds the
\* fields the caller provides.
Partials ==
    { [source |-> "local"], [source |-> "github"],
      [repo |-> "r2"], [cacheTTL |-> 0, token |-> ""] }

Has(p, f) == f \in DOMAIN p

\* The configuration after the six `if (newConfig.f) config.f = ...` lines:
\* a field is taken when it is provided and truthy.
Updated(p) ==
    [ repo     |-> IF Has(p, "repo") /\ p.repo # "" THEN p.repo ELSE config.repo,
      branch   |-> IF Has(p, "branch") /\ p.branch # "" THEN p.branch ELSE config.branch,
      token    |-> IF Has(p, "token") /\ p.token # "" THEN p.token ELSE config.token,
      repoPath |-> IF Has(p, "repoPath") /\ p.repoPath # "" THEN p.repoPath ELSE config.repoPath,
      cacheTTL |-> IF Has(p, "cacheTTL") /\ p.cacheTTL # 0
                   THEN p.cacheTTL * MsPerSecond ELSE config.cacheTTL,
      source   |-> IF Has(p, "source") /\ p.source # "" THEN p.source ELSE config.source ]

\* The change from configuration c to d changes what the fetch chain at pc
\* would have fetched: the source mode, or the remote coordinate of a remote
\* chain.
Affects(c, d, pc) ==
    \/ c.source # d.source
    \/ /\ pc # "local"
       /\ << c.repo, c.branch, c.token, c.repoPath >>
             # << d.repo, d.branch, d.token, d.repoPath >>

\* updateConfig: apply the fields, clear both caches and the fetch time.
UpdateConfig(p) ==
    /\ mq = << >>
    /\ config' = Updated(p)
    /\ cache' = [t \in Types |-> CacheNull]
    /\ lastFetchTime' = 0
    /\ entry' = [t \in Types |-> EntryNone]
    /\ listed' = [t \in Types |-> 0]
    /\ inv' = [s \in Slots |->
                 IF InChain(s) /\ Affects(config, config', inv[s].pc)
                 THEN [inv[s] EXCEPT !.pre = TRUE]
                 ELSE inv[s]]
    /\ UNCHANGED << bundled, isFetching, mirror, now, mq, refreshing >>

\* Wall-clock time passes.
Tick ==
    /\ mq = << >>
    /\ now < Epoch + MaxTicks * TickMs
    /\ now' = now + TickMs
    /\ entry' = [t \in Types |->
                   IF now' - entry[t].at > config.cacheTTL
                   THEN [entry[t] EXCEPT !.at = 0]
                   ELSE entry[t]]
    /\ listed' = [t \in Types |->
                    IF now' - listed[t] > config.cacheTTL THEN 0 ELSE listed[t]]
    /\ UNCHANGED << bundled, config, cache, lastFetchTime, isFetching, mirror, inv, mq,
                    refreshing >>

Next ==
    \/ \E s \in Callers : LoadSteps(s)
    \/ \E s \in Callers : LoadWorkflows(s)
    \/ \E s \in Callers, x \in LookupIds : GetStepById(s, x)
    \/ \E s \in Callers, x \in LookupIds : GetWorkflowById(s, x)
    \/ \E s \in Slots : ListingDone(s)
    \/ \E s \in Slots : FileDone(s)
    \/ \E s \in Slots : SaveDone(s)
    \/ \E s \in Slots : FallbackDone(s)
    \/ \E s \in Slots : LocalDone(s)
    \/ \E s \in Slots : Assign(s)
    \/ RefreshCache
    \/ RefreshReturn
    \/ GetCacheStatus
    \/ \E p \in Partials : UpdateConfig(p)
    \/ Tick

Spec == Init /\ [][Next]_vars

\* An I/O operation that was issued completes or fails: the callback of the
\* one pending operation of the chain in flight runs.
Completes ==
    \E s \in Slots :
        ListingDone(s) \/ FileDone(s) \/ SaveDone(s) \/ FallbackDone(s) \/ LocalDone(s)

\* The event loop runs a queued microtask.
Microtask == RefreshReturn \/ \E s \in Slots : Assign(s)

\* The steps of a burst of activity shorter than the clock's resolution:
\* every step but the passage of time.
Burst ==
    \/ \E s \in Callers : LoadSteps(s)
    \/ \E s \in Callers : LoadWorkflows(s)
    \/ \E s \in Callers, x \in LookupIds : GetStepById(s, x)
    \/ \E s \in Callers, x \in LookupIds : GetWorkflowById(s, x)
    \/ Completes
    \/ Microtask
    \/ RefreshCache
    \/ GetCacheStatus
    \/ \E p \in Partials : UpdateConfig(p)

\* The event loop drains the microtask queue after every macrotask, and a
\* completed I/O operation's callback is run however many calls arrive from
\* outside (each of which leaves it pending).
FairSpec == Init /\ [][Burst]_vars /\ WF_vars(Microtask) /\ SF_vars(Completes)

\* ================================================================ claims
\* A call (from outside, or by refreshCache) starts in slot s in this step.
Starts(s) == inv[s].pc = "idle" /\ inv'[s].pc # "idle"

\* The parsable .json files of the bundled directory of a type, as a set.
BundledDefaults(type) ==
    IF BundledReadable(type)
    THEN { JsonParse(f.content) :
             f \in {g \in BundledFiles(type) : EndsWithJson(g.name) /\ Parses(g.content)} }
    ELSE {}

\* The items the mirror directory of a type holds: its parsable .json files.
MirrorItems(dir) ==
    IF dir.exists
    THEN { JsonParse(f.content) :
             f \in {g \in dir.files : EndsWithJson(g.name) /\ Parses(g.content)} }
    ELSE {}

\* A sequence without repetition holding exactly the elements of a set.
Holds(seq, set) == Seq2Set(seq) = set /\ Len(seq) = Cardinality(set)

\* C1: a load(T) call from outside issues a remote listing only if no earlier
\* load(T) call since the last refresh or reconfigure issued one within the
\* TTL before it: two loads within the TTL of each other issue at most one
\* listing, whether that listing succeeded or failed.
C1_OneListingPerWindow ==
    [][ \A s \in Callers :
          (Starts(s) /\ inv'[s].pc = "list")
              => \/ listed[inv'[s].type] = 0
                 \/ now - listed[inv'[s].type] > config.cacheTTL ]_vars

\* A second load within the TTL of a load whose listing failed is served the
\* bundled fallback from the cache.
C1_Witness ==
    \E s \in Callers :
        /\ inv[s].pc = "assign"
        /\ inv[s].how = "hit"
        /\ inv[s].type = "steps"
        /\ config.source = "github"
        /\ listed["steps"] # 0
        /\ inv[s].ret = << Item("b", "bundled") >>

\* C2: a load served from the cache returns a sequence that a fetch chain
\* for its own type produced, no longer ago than the TTL.
C2_FreshPerType ==
    \A s \in Slots :
        (inv[s].pc = "assign" /\ inv[s].how = "hit")
            => /\ entry[inv[s].type].byChain
               /\ entry[inv[s].type].at # 0
               /\ now - entry[inv[s].type].at <= config.cacheTTL

\* C3: at most one fetch chain runs and the flag is true exactly then; a load
\* arriving while the flag is true resolves at once, without I/O, leaves the
\* flag set, and returns the cached sequence of its type, or an empty one.
C3_SingleFlight ==
    /\ [](/\ Cardinality({s \in Slots : InChain(s)}) <= 1
          /\ isFetching <=> (\E s \in Slots : InChain(s)))
    /\ [][ \A s \in Slots :
             (Starts(s) /\ isFetching)
                 => /\ inv'[s].pc = "assign"
                    /\ isFetching'
                    /\ mirror' = mirror
                    /\ inv'[s].ret = IF cache'[inv'[s].type].set
                                     THEN cache'[inv'[s].type].items
                                     ELSE << >> ]_vars

\* A load resolved by the flag while another slot runs its chain.
C3_Witness ==
    \E s, o \in Slots :
        /\ InChain(o)
        /\ inv[s].pc = "assign"
        /\ inv[s].how = "suppressed"
        /\ inv[s].type = inv[o].type

\* C4: when a refresh called with no other call in progress returns, each
\* cache entry is the result of a fetch chain run for its type, and the
\* summary counts its items.
C4_RefreshLoadsBoth ==
    (mq # << >> /\ Head(mq) = 0 /\ refreshing = "alone")
        => \A t \in Types :
              /\ cache[t].set
              /\ entry[t].byChain
              /\ RefreshSummary[t] = Len(cache[t].items)

\* C5: a fetch chain that started before a change of the configuration it
\* fetches under neither stamps the fetch time nor leaves an entry that a
\* later load is served from the cache.
C5_ReconfigureInvalidates ==
    \A s \in Slots :
        inv[s].pc = "assign"
            => /\ inv[s].how = "chain" => ~inv[s].pre
               /\ inv[s].how = "hit" => ~entry[inv[s].type].pre

\* C6: in local mode, a load that finds no cache entry and no fetch in flight
\* (as after reconfigure) reads the bundled files only: no remote request, no
\* mirror access, the bundled defaults returned, stored and stamped.
C6_LocalOnly ==
    [][ \A s \in Slots :
          /\ (s \in Callers /\ Starts(s) /\ config.source = "local" /\ ~isFetching
                  /\ ~cache[inv'[s].type].set)
                 => (inv'[s].pc = "local" /\ mirror' = mirror)
          /\ inv[s].pc = "local"
                 => /\ inv'[s].pc \in {"local", "assign"}
                    /\ mirror' = mirror
                    /\ inv'[s].pc = "assign"
                          => /\ Holds(inv'[s].ret, BundledDefaults(inv[s].type))
                             /\ lastFetchTime' = now
          /\ (inv[s].pc = "assign" /\ inv[s].via = "local" /\ inv'[s].pc = "idle")
                 => cache'[inv[s].type] = CacheOf(inv[s].ret) ]_vars

\* A local-mode load returning the bundled step after the process had
\* fetched from the remote (the mirror holds a fetched file).
C6_Witness ==
    \E s \in Slots :
        /\ config.source = "local"
        /\ inv[s].pc = "assign"
        /\ inv[s].via = "local"
        /\ inv[s].ret = << Item("b", "bundled") >>
        /\ Item("a", "remote") \in MirrorItems(mirror["steps"])

\* C7: a chain whose listing failed while the mirror held an item returns
\* exactly the mirror's items.
C7_MirrorFallback ==
    \A s \in Slots :
        (/\ inv[s].pc = "assign"
         /\ inv[s].via \in {"mirror", "bundled"}
         /\ MirrorItems(mirror[inv[s].type]) # {})
            => /\ inv[s].via = "mirror"
               /\ Holds(inv[s].ret, MirrorItems(mirror[inv[s].type]))

\* C8: a chain whose listing failed while the mirror directory was missing
\* or held no item returns the bundled defaults, which become the entry.
C8_BundledFallback ==
    [][ \A s \in Slots :
          /\ (inv[s].pc = "fallback" /\ inv'[s].pc = "assign"
                  /\ MirrorItems(mirror[inv[s].type]) = {})
                 => /\ inv'[s].via = "bundled"
                    /\ Holds(inv'[s].ret, BundledDefaults(inv[s].type))
          /\ (inv[s].pc = "assign" /\ inv[s].via = "bundled" /\ inv'[s].pc = "idle")
                 => cache'[inv[s].type] = CacheOf(inv[s].ret) ]_vars

\* The bundled step served in remote mode over a mirror holding only an
\* unparsable file.
C8_Witness ==
    \E s \in Slots :
        /\ config.source = "github"
        /\ inv[s].pc = "assign"
        /\ inv[s].via = "bundled"
        /\ inv[s].ret = << Item("b", "bundled") >>
        /\ mirror["steps"].exists
        /\ mirror["steps"].files # {}

\* C9: after a chain whose listing succeeded and whose writes all succeeded,
\* each fetched item is in the mirror under <id>.json with content that
\* parses back to it, and a mirror read yields every fetched item.
C9_WriteThroughRoundTrip ==
    \A s \in Slots :
        (inv[s].pc = "assign" /\ inv[s].via = "remote" /\ inv[s].saved = "ok")
            => LET dir == mirror[inv[s].type]
                   read == LoadFromCacheDir(dir)
               IN  /\ \A i \in 1..Len(inv[s].ret) :
                         /\ Json(inv[s].ret[i].id) \in Names(dir.files)
                         /\ Parses(ContentOf(dir.files, Json(inv[s].ret[i].id)))
                         /\ JsonParse(ContentOf(dir.files, Json(inv[s].ret[i].id)))
                               = inv[s].ret[i]
                   /\ inv[s].ret # << >>
                         => /\ read.present
                            /\ Seq2Set(inv[s].ret) \subseteq Seq2Set(read.items)

\* C10: the mirror changes only in the step that ends a remote chain whose
\* listing succeeded, only in the directory of that chain's type, and every
\* file written is <id>.json holding an item that chain fetched.
C10_MirrorProvenance ==
    [][ mirror' # mirror
          => \E s \in Slots :
                /\ inv[s].pc = "save"
                /\ inv'[s].pc = "assign"
                /\ \A t \in Types \ {inv[s].type} : mirror'[t] = mirror[t]
                /\ \A f \in mirror'[inv[s].type].files \ mirror[inv[s].type].files :
                      \E i \in 1..Len(inv[s].items) :
                          /\ f.name = Json(inv[s].items[i].id)
                          /\ Parses(f.content)
                          /\ JsonParse(f.content) = inv[s].items[i] ]_vars

\* A mirror holding both fetched steps, written by one chain.
C10_Witness ==
    \E s \in Slots :
        /\ inv[s].pc = "assign"
        /\ inv[s].via = "remote"
        /\ inv[s].ret = << Item("a", "remote"), Item("b", "remote") >>
        /\ {Item("a", "remote"), Item("b", "remote")} \subseteq MirrorItems(mirror["steps"])

\* A sequence of items.
IsItems(seq) == \A i \in 1..Len(seq) : DOMAIN seq[i] = {"id", "src"}

\* C11: whatever fails inside a fetch chain (the listing, a file fetch or
\* parse, the mirror read, the mirror write, the bundled directory or one of
\* its files), each step of the chain leads to the next stage of the chain or
\* to the load resolving with a sequence of items: it never rejects.
C11_NoErrorReachesCaller ==
    [][ \A s \in Slots :
          InChain(s)
              => \/ inv'[s].pc \in {"list", "file", "save", "fallback", "local"}
                 \/ /\ inv'[s].pc = "assign"
                    /\ IsItems(inv'[s].ret) ]_vars

\* A load resolving with the empty sequence after its listing failed, the
\* mirror read failed on an unparsable file and the bundled directory could
\* not be read.
C11_Witness ==
    \E s \in Slots :
        /\ inv[s].pc = "assign"
        /\ inv[s].how = "chain"
        /\ inv[s].via = "bundled"
        /\ inv[s].ret = << >>
        /\ ~BundledReadable(inv[s].type)
        /\ \E f \in mirror[inv[s].type].files : EndsWithJson(f.name) /\ ~Parses(f.content)

\* C12: the step in which a chain ends, whatever its path, clears the flag;
\* a flag that is set is eventually cleared, given that issued I/O completes
\* or fails; and a load called while no chain runs is not suppressed.
C12_FlagReleased ==
    /\ [][ \A s \in Slots :
             (InChain(s) /\ inv'[s].pc \notin {"list", "file", "save", "fallback", "local"})
                 => ~isFetching' ]_vars
    /\ isFetching ~> ~isFetching
    /\ [][ \A s \in Slots :
             (Starts(s) /\ ~isFetching /\ s \in Callers)
                 => inv'[s].how # "suppressed" ]_vars

\* The flag released by a chain that ended in the mirror fallback, its
\* result not yet assigned.
C12_Witness ==
    \E s \in Slots :
        /\ inv[s].pc = "assign"
        /\ inv[s].how = "chain"
        /\ inv[s].via = "mirror"
        /\ inv[s].ret # << >>
        /\ ~isFetching

\* C13: when the load of a getById(T, x) call resolves, the call returns the
\* item at the lowest position of the loaded sequence whose id is x, and
\* not-found when no item of the sequence has id x.
C13_GetById ==
    \A s \in Callers, x \in LookupIds :
        inv[s].pc = "assign"
            => LET items == inv[s].ret
                   hits == {i \in 1..Len(items) : items[i].id = x}
                   r == GetByIdResult(s, x)
               IN  IF hits = {}
                   THEN ~r.found
                   ELSE /\ r.found
                        /\ \E i \in hits : r.item = items[i] /\ \A j \in hits : i <= j

\* A lookup in a sequence holding two items with the id looked up, and a
\* lookup of an id the sequence does not hold.
C13_Witness ==
    \E s \in Callers :
        /\ inv[s].pc = "assign"
        /\ inv[s].ret = << Item("w", "bundled"), Item("w", "copy") >>
        /\ GetByIdResult(s, "w") = [found |-> TRUE, item |-> Item("w", "bundled")]
        /\ ~GetByIdResult(s, "zz").found

\* C14: a cache entry changes only by being cleared (refresh, reconfigure)
\* or by the assignment of the result of a fetch chain run for its type; the
\* assignment of a suppressed load or of a load served from the cache leaves
\* it as it was, unset included.
C14_EntryFrame ==
    [][ \A t \in Types :
          cache'[t] # cache[t]
              => \/ cache'[t] = CacheNull
                 \/ \E s \in Slots :
                       /\ inv[s].pc = "assign"
                       /\ inv'[s].pc = "idle"
                       /\ inv[s].type = t
                       /\ inv[s].how = "chain"
                       /\ cache'[t] = CacheOf(inv[s].ret) ]_vars

\* C15: every file request of a load is built from the configuration its
\* listing request was built from.
C15_NoTornReads ==
    \A s \in Slots :
        inv[s].pc = "file" => inv[s].reqRepo = inv[s].listRepo

\* C16: when a remote load whose listing and writes all succeeded resolves,
\* a read of its type's mirror (every file of which parses) yields exactly
\* the items the load returns: nothing an earlier fetch left behind.
C16_MirrorIsLatestFetch ==
    \A s \in Slots :
        (/\ inv[s].pc = "assign"
         /\ inv[s].via = "remote"
         /\ inv[s].saved = "ok"
         /\ \A f \in mirror[inv[s].type].files : Parses(f.content))
            => Seq2Set(LoadFromCacheDir(mirror[inv[s].type]).items) = Seq2Set(inv[s].ret)

\* C17: when saveToCacheDir has created the directory of a type, at most one
\* item of the batch (the one whose write failed) is missing from it.
C17_WriteIsolatesFailures ==
    [][ \A s \in Slots :
          (/\ inv[s].pc = "save"
           /\ inv'[s].pc = "assign"
           /\ ~mirror[inv[s].type].exists
           /\ mirror'[inv[s].type].exists)
              => Cardinality({ i \in 1..Len(inv[s].items) :
                                 inv[s].items[i] \notin MirrorItems(mirror'[inv[s].type]) })
                     <= 1 ]_vars

\* C18: a read of a mirror directory holding at least one parsable .json
\* file and at least one unparsable one is not absent, and yields exactly the
\* items of the parsable files.
C18_ReadIsolatesFailures ==
    \A t \in Types :
        (/\ MirrorItems(mirror[t]) # {}
         /\ \E f \in mirror[t].files : EndsWithJson(f.name) /\ ~Parses(f.content))
            => /\ LoadFromCacheDir(mirror[t]).present
               /\ Holds(LoadFromCacheDir(mirror[t]).items, MirrorItems(mirror[t]))

\* C19: updateConfig(p) sets every field p provides to the value provided
\* (the TTL in milliseconds), a TTL of zero and an empty credential
\* included, and leaves every other field as it was.
C19_ReconfigureApplies ==
    [][ \A p \in Partials :
          UpdateConfig(p)
              => \A f \in DOMAIN config :
                    config'[f] = IF ~Has(p, f)
                                 THEN config[f]
                                 ELSE IF f = "cacheTTL"
                                      THEN p[f] * MsPerSecond
                                      ELSE p[f] ]_vars

\* C20: when a load that did not fetch assigns the sequence it was given,
\* the entry is still the one it took when it was called (no fetch chain
\* installed a result in between), and an entry that is set is left as it is.
C20_NoLostUpdate ==
    [][ \A s \in Slots :
          (/\ inv[s].pc = "assign"
           /\ inv'[s].pc = "idle"
           /\ inv[s].how \in {"hit", "suppressed"})
              => /\ cache[inv[s].type] = inv[s].arg
                 /\ cache[inv[s].type].set => cache'[inv[s].type] = cache[inv[s].type] ]_vars

\* A chain about to install its result over the entry that a load of the
\* same type, called while the chain ran, has assigned.
C20_Witness ==
    \E s \in Callers :
        /\ inv[s].pc = "assign"
        /\ inv[s].how = "chain"
        /\ inv[s].ret # << >>
        /\ cache[inv[s].type] = CacheOf(<< >>)
        /\ ~entry[inv[s].type].byChain
        /\ refreshing = "no"

====
